---- MODULE Spec2Model ----
(***************************************************************************)
(* The vehicle passport ledger of drivaro: the Move module                 *)
(* vehicle_passport_move::vehicle_passport (Registry, WorkshopIdentity,    *)
(* VehiclePassport, ServiceIntervention and the entry functions on them).  *)
(*                                                                         *)
(* Every entry function is an operator that threads the objects it takes   *)
(* through its statements in source order and returns an outcome record:   *)
(* `abort` is 0 on success or the abort code, the remaining fields are the *)
(* objects as the function left them and the events it emitted.  The       *)
(* action of the same name applies the outcome to the ledger, so that an   *)
(* aborting call leaves the ledger alone only because the function wrote   *)
(* nothing before it aborted.  Events belong to the effects of the         *)
(* transaction that emitted them.  The u64 fields stay far below 2^64      *)
(* within the bound of the model, so no addition overflows.                *)
(*                                                                         *)
(* The backend that serves the ledger follows it: the IotaCliService that  *)
(* signs and submits transactions, and the RecordsService that reads the   *)
(* passports back, keeps them in a short-lived cache and gives the         *)
(* consistency verdict of a history.  The ledger and the backend have a    *)
(* specification each; the variables of the one stay as constructed in     *)
(* the specifications of the other.                                        *)
(***************************************************************************)
EXTENDS Integers, Sequences, FiniteSets, TLC

VARIABLES
    registry,     \* the shared Registry object
    passports,    \* the VehiclePassport objects, by creation order
    custody,      \* custody[p]: the address that holds passport object p
    last,         \* the latest transaction: its function, sender, arguments,
                  \* abort code and the events in its effects
    iota,         \* the IotaCliService: packageId, registryId,
                  \* adminPrivateKey and workshopKeypairs
    submitted,    \* what the backend handed to signAndExecuteTransaction,
                  \* each transaction with the request it was built for
    response,     \* the outcome of the latest addIntervention request
                  \* ({} before the first)
    cachedPassports, \* RecordsService.cachedPassports ({} for null)
    now,          \* Date.now(), in milliseconds
    ledgerVersion,   \* the transactions committed on the ledger the
                  \* backend reads
    loads         \* loads[c]: the position and the locals of call c of
                  \* loadOnChainPassports

ledgerVars == <<registry, passports, custody, last>>

signerVars == <<iota, submitted, response>>

cacheVars == <<cachedPassports, now, ledgerVersion, loads>>

vars == <<registry, passports, custody, last, iota, submitted, response,
          cachedPassports, now, ledgerVersion, loads>>

----------------------------------------------------------------------------
(* Bounds of the model.                                                    *)

\* directory entries, passports and interventions the ledger holds together
MaxObjects == 4

(* Abort codes.                                                            *)

E_NOT_ADMIN == 1
E_WORKSHOP_NOT_ACTIVE == 2
E_ODOMETER_ROLLBACK == 3
E_ZERO_VALUE == 4
E_UNAUTHORIZED_SENDER == 5

\* the call ran to its end
OK == 0
\* the transaction was refused before the function ran: a passport it
\* takes is not held by the sender
E_OBJECT_NOT_HELD == 0 - 1

(* Input domains.                                                          *)

Address == {"0xA1", "0xAA"}
Vin == {"VIN123"}
Make == {"Acme"}
Model == {"Z1"}
Did == {"did:x"}
PublicKey == {"mABC"}
WorkType == {"oil_change"}
NotesHash == {"0xhash1"}
EvidenceUri == {"uri1"}
Signature == {"sig1"}
Km == {0, 15000}
Ts == {0, 1}
Year == {0, 2020}

----------------------------------------------------------------------------
(* Events.                                                                 *)

RegistryCreated(admin) == [type |-> "RegistryCreated", admin |-> admin]

WorkshopRegistered(workshop) == [type |-> "WorkshopRegistered", workshop |-> workshop]

WorkshopStatusChanged(workshop, active) ==
    [type |-> "WorkshopStatusChanged", workshop |-> workshop, active |-> active]

PassportMinted(owner) == [type |-> "PassportMinted", owner |-> owner]

InterventionRecorded(workshop, odometer_km) ==
    [type |-> "InterventionRecorded", workshop |-> workshop, odometer_km |-> odometer_km]

----------------------------------------------------------------------------
(* Objects.                                                                *)

WorkshopIdentity(workshop, did, public_key_multibase, active) ==
    [workshop |-> workshop, did |-> did,
     public_key_multibase |-> public_key_multibase, active |-> active]

ServiceIntervention(seq, workshop, odometer_km, work_type, notes_hash, evidence_uri, workshop_signature, recorded_at_ms) ==
    [seq |-> seq, workshop |-> workshop, odometer_km |-> odometer_km,
     work_type |-> work_type, notes_hash |-> notes_hash,
     evidence_uri |-> evidence_uri, workshop_signature |-> workshop_signature,
     recorded_at_ms |-> recorded_at_ms]

----------------------------------------------------------------------------
(* Directory lookups: both scan the vector from index 0 and stop at the    *)
(* first entry of the address.                                             *)

\* variant: the scan goes on to the last entry of the address
RECURSIVE is_workshop_active_from_last_match(_, _, _)
is_workshop_active_from_last_match(reg, workshop, i) ==
    IF i <= Len(reg.workshops)
    THEN IF /\ reg.workshops[i].workshop = workshop
            /\ \A j \in (i + 1)..Len(reg.workshops) :
                   reg.workshops[j].workshop # workshop
         THEN reg.workshops[i].active
         ELSE is_workshop_active_from_last_match(reg, workshop, i + 1)
    ELSE FALSE

RECURSIVE is_workshop_active_from(_, _, _)
is_workshop_active_from(reg, workshop, i) ==
    IF i <= Len(reg.workshops)
    THEN IF reg.workshops[i].workshop = workshop
         THEN reg.workshops[i].active
         ELSE is_workshop_active_from(reg, workshop, i + 1)
    ELSE FALSE

\* variant: any entry of the address counts, not the first one
is_workshop_active_any_entry(reg, workshop) ==
    \E i \in 1..Len(reg.workshops) :
        reg.workshops[i].workshop = workshop /\ reg.workshops[i].active

is_workshop_active(reg, workshop) == is_workshop_active_from(reg, workshop, 1)

\* the 1-based position, or 0 where the function aborts
RECURSIVE find_workshop_index_from(_, _, _)
find_workshop_index_from(reg, workshop, i) ==
    IF i <= Len(reg.workshops)
    THEN IF reg.workshops[i].workshop = workshop
         THEN i
         ELSE find_workshop_index_from(reg, workshop, i + 1)
    ELSE 0

find_workshop_index(reg, workshop) ==
    LET idx == find_workshop_index_from(reg, workshop, 1)
    IN  [abort |-> IF idx = 0 THEN E_WORKSHOP_NOT_ACTIVE ELSE OK, idx |-> idx]

\* variant: an active workshop passes as well
assert_admin_or_active_workshop(reg, sender) ==
    IF reg.admin = sender \/ is_workshop_active(reg, sender) THEN OK ELSE E_NOT_ADMIN

assert_admin(reg, sender) ==
    IF reg.admin = sender THEN OK ELSE E_NOT_ADMIN

workshop_count(reg) == Len(reg.workshops)

intervention_count(passport) == Len(passport.interventions)

----------------------------------------------------------------------------
(* Entry functions.                                                        *)

init(sender) ==
    [registry |-> [admin |-> sender, workshops |-> <<>>, passport_counter |-> 0],
     emitted |-> <<RegistryCreated(sender)>>]

\* variant: registering again replaces the entries of the address
register_workshop_replaces_entry(reg, workshop, did, public_key_multibase, sender) ==
    IF workshop # sender
    THEN [abort |-> E_UNAUTHORIZED_SENDER, registry |-> reg, emitted |-> <<>>]
    ELSE [abort |-> OK,
          registry |-> [reg EXCEPT !.workshops =
              Append(SelectSeq(@, LAMBDA e : e.workshop # workshop),
                     WorkshopIdentity(workshop, did, public_key_multibase, TRUE))],
          emitted |-> <<WorkshopRegistered(workshop)>>]

\* variant: registering again switches the earlier entries of the address on
register_workshop_reactivates(reg, workshop, did, public_key_multibase, sender) ==
    IF workshop # sender
    THEN [abort |-> E_UNAUTHORIZED_SENDER, registry |-> reg, emitted |-> <<>>]
    ELSE [abort |-> OK,
          registry |-> [reg EXCEPT !.workshops =
              Append([i \in 1..Len(@) |->
                         IF @[i].workshop = workshop
                         THEN [@[i] EXCEPT !.active = TRUE] ELSE @[i]],
                     WorkshopIdentity(workshop, did, public_key_multibase, TRUE))],
          emitted |-> <<WorkshopRegistered(workshop)>>]

\* variant: an address that has an entry already gets no second one
register_workshop_once(reg, workshop, did, public_key_multibase, sender) ==
    IF workshop # sender
    THEN [abort |-> E_UNAUTHORIZED_SENDER, registry |-> reg, emitted |-> <<>>]
    ELSE IF \E i \in 1..Len(reg.workshops) : reg.workshops[i].workshop = workshop
    THEN [abort |-> OK, registry |-> reg, emitted |-> <<WorkshopRegistered(workshop)>>]
    ELSE [abort |-> OK,
          registry |-> [reg EXCEPT !.workshops =
              Append(@, WorkshopIdentity(workshop, did, public_key_multibase, TRUE))],
          emitted |-> <<WorkshopRegistered(workshop)>>]

register_workshop(reg, workshop, did, public_key_multibase, sender) ==
    IF workshop # sender
    THEN [abort |-> E_UNAUTHORIZED_SENDER, registry |-> reg, emitted |-> <<>>]
    ELSE [abort |-> OK,
          registry |-> [reg EXCEPT !.workshops =
              Append(@, WorkshopIdentity(workshop, did, public_key_multibase, TRUE))],
          emitted |-> <<WorkshopRegistered(workshop)>>]

\* variant: the write goes to the admin field as well
set_workshop_status_writes_admin(reg, workshop, active, sender) ==
    IF assert_admin(reg, sender) # OK
    THEN [abort |-> assert_admin(reg, sender), registry |-> reg, emitted |-> <<>>]
    ELSE LET found == find_workshop_index(reg, workshop)
         IN  IF found.abort # OK
             THEN [abort |-> found.abort, registry |-> reg, emitted |-> <<>>]
             ELSE [abort |-> OK,
                   registry |-> [reg EXCEPT !.workshops[found.idx].active = active,
                                            !.admin = workshop],
                   emitted |-> <<WorkshopStatusChanged(workshop, active)>>]

\* variant: every entry of the address is written
set_workshop_status_writes_every_entry(reg, workshop, active, sender) ==
    IF assert_admin(reg, sender) # OK
    THEN [abort |-> assert_admin(reg, sender), registry |-> reg, emitted |-> <<>>]
    ELSE LET found == find_workshop_index(reg, workshop)
         IN  IF found.abort # OK
             THEN [abort |-> found.abort, registry |-> reg, emitted |-> <<>>]
             ELSE [abort |-> OK,
                   registry |-> [reg EXCEPT !.workshops =
                       [i \in 1..Len(@) |->
                           IF @[i].workshop = workshop
                           THEN [@[i] EXCEPT !.active = active] ELSE @[i]]],
                   emitted |-> <<WorkshopStatusChanged(workshop, active)>>]

\* variant: the flag is flipped, whatever the argument says
set_workshop_status_toggles(reg, workshop, active, sender) ==
    IF assert_admin(reg, sender) # OK
    THEN [abort |-> assert_admin(reg, sender), registry |-> reg, emitted |-> <<>>]
    ELSE LET found == find_workshop_index(reg, workshop)
         IN  IF found.abort # OK
             THEN [abort |-> found.abort, registry |-> reg, emitted |-> <<>>]
             ELSE [abort |-> OK,
                   registry |-> [reg EXCEPT !.workshops[found.idx].active = ~@],
                   emitted |-> <<WorkshopStatusChanged(workshop, active)>>]

\* variant: deactivating removes the entry from the directory
set_workshop_status_removes_entry(reg, workshop, active, sender) ==
    IF assert_admin(reg, sender) # OK
    THEN [abort |-> assert_admin(reg, sender), registry |-> reg, emitted |-> <<>>]
    ELSE LET found == find_workshop_index(reg, workshop)
         IN  IF found.abort # OK
             THEN [abort |-> found.abort, registry |-> reg, emitted |-> <<>>]
             ELSE IF active
             THEN [abort |-> OK,
                   registry |-> [reg EXCEPT !.workshops[found.idx].active = active],
                   emitted |-> <<WorkshopStatusChanged(workshop, active)>>]
             ELSE [abort |-> OK,
                   registry |-> [reg EXCEPT !.workshops =
                       SubSeq(@, 1, found.idx - 1) \o SubSeq(@, found.idx + 1, Len(@))],
                   emitted |-> <<WorkshopStatusChanged(workshop, active)>>]

set_workshop_status(reg, workshop, active, sender) ==
    IF assert_admin(reg, sender) # OK
    THEN [abort |-> assert_admin(reg, sender), registry |-> reg, emitted |-> <<>>]
    ELSE LET found == find_workshop_index(reg, workshop)
         IN  IF found.abort # OK
             THEN [abort |-> found.abort, registry |-> reg, emitted |-> <<>>]
             ELSE [abort |-> OK,
                   registry |-> [reg EXCEPT !.workshops[found.idx].active = active],
                   emitted |-> <<WorkshopStatusChanged(workshop, active)>>]

\* variant: the year is not looked at
mint_vehicle_passport_accepts_year_zero(reg, vin, make, model, year, owner, sender) ==
    IF owner # sender
    THEN [abort |-> E_UNAUTHORIZED_SENDER, registry |-> reg,
          minted |-> <<>>, receiver |-> <<>>, emitted |-> <<>>]
    ELSE [abort |-> OK,
          registry |-> [reg EXCEPT !.passport_counter = @ + 1],
          minted |-> <<[vin |-> vin, make |-> make, model |-> model, year |-> year,
                        owner |-> owner, latest_odometer_km |-> 0,
                        intervention_counter |-> 0, interventions |-> <<>>]>>,
          receiver |-> <<owner>>,
          emitted |-> <<PassportMinted(owner)>>]

\* variant: the counter is not incremented
mint_vehicle_passport_stale_counter(reg, vin, make, model, year, owner, sender) ==
    IF owner # sender
    THEN [abort |-> E_UNAUTHORIZED_SENDER, registry |-> reg,
          minted |-> <<>>, receiver |-> <<>>, emitted |-> <<>>]
    ELSE IF ~(year > 0)
    THEN [abort |-> E_ZERO_VALUE, registry |-> reg,
          minted |-> <<>>, receiver |-> <<>>, emitted |-> <<>>]
    ELSE [abort |-> OK,
          registry |-> reg,
          minted |-> <<[vin |-> vin, make |-> make, model |-> model, year |-> year,
                        owner |-> owner, latest_odometer_km |-> 0,
                        intervention_counter |-> 0, interventions |-> <<>>]>>,
          receiver |-> <<owner>>,
          emitted |-> <<PassportMinted(owner)>>]

mint_vehicle_passport(reg, vin, make, model, year, owner, sender) ==
    IF owner # sender
    THEN [abort |-> E_UNAUTHORIZED_SENDER, registry |-> reg,
          minted |-> <<>>, receiver |-> <<>>, emitted |-> <<>>]
    ELSE IF ~(year > 0)
    THEN [abort |-> E_ZERO_VALUE, registry |-> reg,
          minted |-> <<>>, receiver |-> <<>>, emitted |-> <<>>]
    ELSE [abort |-> OK,
          registry |-> [reg EXCEPT !.passport_counter = @ + 1],
          minted |-> <<[vin |-> vin, make |-> make, model |-> model, year |-> year,
                        owner |-> owner, latest_odometer_km |-> 0,
                        intervention_counter |-> 0, interventions |-> <<>>]>>,
          receiver |-> <<owner>>,
          emitted |-> <<PassportMinted(owner)>>]

\* variant: the mileage assert stands before the workshop assert
record_intervention_asserts_rollback_first(reg, passport, odometer_km, recorded_at_ms, sender) ==
    IF ~(odometer_km >= passport.latest_odometer_km) THEN E_ODOMETER_ROLLBACK
    ELSE IF ~is_workshop_active(reg, sender) THEN E_WORKSHOP_NOT_ACTIVE
    ELSE IF ~(recorded_at_ms > 0) THEN E_ZERO_VALUE
    ELSE OK

\* variant: the reading has to rise
record_intervention_asserts_strictly_rising(reg, passport, odometer_km, recorded_at_ms, sender) ==
    IF ~is_workshop_active(reg, sender) THEN E_WORKSHOP_NOT_ACTIVE
    ELSE IF ~(odometer_km > passport.latest_odometer_km) THEN E_ODOMETER_ROLLBACK
    ELSE IF ~(recorded_at_ms > 0) THEN E_ZERO_VALUE
    ELSE OK

\* variant: the reading is compared with the first reading of the history
record_intervention_asserts_checks_first_reading(reg, passport, odometer_km, recorded_at_ms, sender) ==
    IF ~is_workshop_active(reg, sender) THEN E_WORKSHOP_NOT_ACTIVE
    ELSE IF ~(odometer_km >= (IF passport.interventions = <<>>
                              THEN passport.latest_odometer_km
                              ELSE passport.interventions[1].odometer_km))
    THEN E_ODOMETER_ROLLBACK
    ELSE IF ~(recorded_at_ms > 0) THEN E_ZERO_VALUE
    ELSE OK

\* variant: the timestamp assert is missing
record_intervention_asserts_no_timestamp_check(reg, passport, odometer_km, recorded_at_ms, sender) ==
    IF ~is_workshop_active(reg, sender) THEN E_WORKSHOP_NOT_ACTIVE
    ELSE IF ~(odometer_km >= passport.latest_odometer_km) THEN E_ODOMETER_ROLLBACK
    ELSE OK

\* variant: the mileage assert is missing
record_intervention_asserts_no_rollback_check(reg, passport, odometer_km, recorded_at_ms, sender) ==
    IF ~is_workshop_active(reg, sender) THEN E_WORKSHOP_NOT_ACTIVE
    ELSE IF ~(recorded_at_ms > 0) THEN E_ZERO_VALUE
    ELSE OK

\* variant: the timestamp assert stands before the mileage assert
record_intervention_asserts_timestamp_first(reg, passport, odometer_km, recorded_at_ms, sender) ==
    IF ~is_workshop_active(reg, sender) THEN E_WORKSHOP_NOT_ACTIVE
    ELSE IF ~(recorded_at_ms > 0) THEN E_ZERO_VALUE
    ELSE IF ~(odometer_km >= passport.latest_odometer_km) THEN E_ODOMETER_ROLLBACK
    ELSE OK

\* the three asserts, in source order: the code of the first that fails
record_intervention_asserts(reg, passport, odometer_km, recorded_at_ms, sender) ==
    IF ~is_workshop_active(reg, sender) THEN E_WORKSHOP_NOT_ACTIVE
    ELSE IF ~(odometer_km >= passport.latest_odometer_km) THEN E_ODOMETER_ROLLBACK
    ELSE IF ~(recorded_at_ms > 0) THEN E_ZERO_VALUE
    ELSE OK

\* variant: seq is read before the counter is incremented
record_intervention_writes_stale_seq(passport, odometer_km, work_type, notes_hash, evidence_uri, workshop_signature, recorded_at_ms, sender) ==
    LET counted == [passport EXCEPT !.intervention_counter = @ + 1]
        measured == [counted EXCEPT !.latest_odometer_km = odometer_km]
    IN  [measured EXCEPT !.interventions = Append(@,
            ServiceIntervention(passport.intervention_counter, sender,
                odometer_km, work_type, notes_hash, evidence_uri,
                workshop_signature, recorded_at_ms))]

\* variant: the watermark is written by the first intervention only
record_intervention_writes_stale_watermark(passport, odometer_km, work_type, notes_hash, evidence_uri, workshop_signature, recorded_at_ms, sender) ==
    LET counted == [passport EXCEPT !.intervention_counter = @ + 1]
        measured == IF passport.intervention_counter = 0
                    THEN [counted EXCEPT !.latest_odometer_km = odometer_km]
                    ELSE counted
    IN  [measured EXCEPT !.interventions = Append(@,
            ServiceIntervention(measured.intervention_counter, sender,
                odometer_km, work_type, notes_hash, evidence_uri,
                workshop_signature, recorded_at_ms))]

\* variant: seq is the new length of the history and the counter is left
\* alone
record_intervention_writes_seq_from_length(passport, odometer_km, work_type, notes_hash, evidence_uri, workshop_signature, recorded_at_ms, sender) ==
    LET measured == [passport EXCEPT !.latest_odometer_km = odometer_km]
    IN  [measured EXCEPT !.interventions = Append(@,
            ServiceIntervention(Len(passport.interventions) + 1, sender,
                odometer_km, work_type, notes_hash, evidence_uri,
                workshop_signature, recorded_at_ms))]

\* variant: the new intervention is put in front of the history
record_intervention_writes_prepends(passport, odometer_km, work_type, notes_hash, evidence_uri, workshop_signature, recorded_at_ms, sender) ==
    LET counted == [passport EXCEPT !.intervention_counter = @ + 1]
        measured == [counted EXCEPT !.latest_odometer_km = odometer_km]
    IN  [measured EXCEPT !.interventions =
            <<ServiceIntervention(measured.intervention_counter, sender,
                odometer_km, work_type, notes_hash, evidence_uri,
                workshop_signature, recorded_at_ms)>> \o @]

\* the writes that follow the asserts
record_intervention_writes(passport, odometer_km, work_type, notes_hash, evidence_uri, workshop_signature, recorded_at_ms, sender) ==
    LET counted == [passport EXCEPT !.intervention_counter = @ + 1]
        measured == [counted EXCEPT !.latest_odometer_km = odometer_km]
    IN  [measured EXCEPT !.interventions = Append(@,
            ServiceIntervention(measured.intervention_counter, sender,
                odometer_km, work_type, notes_hash, evidence_uri,
                workshop_signature, recorded_at_ms))]

\* variant: the entry is attributed to the registry's admin
record_intervention_attributes_to_admin(reg, passport, odometer_km, work_type, notes_hash, evidence_uri, workshop_signature, recorded_at_ms, sender) ==
    LET code == record_intervention_asserts(reg, passport, odometer_km,
                    recorded_at_ms, sender)
    IN  IF code # OK
        THEN [abort |-> code, passport |-> passport, emitted |-> <<>>]
        ELSE [abort |-> OK,
              passport |-> record_intervention_writes(passport, odometer_km,
                  work_type, notes_hash, evidence_uri, workshop_signature,
                  recorded_at_ms, reg.admin),
              emitted |-> <<InterventionRecorded(sender, odometer_km)>>]

\* variant: the timestamp assert stands after the writes
record_intervention_late_timestamp_assert(reg, passport, odometer_km, work_type, notes_hash, evidence_uri, workshop_signature, recorded_at_ms, sender) ==
    LET code == record_intervention_asserts(reg, passport, odometer_km, 1, sender)
        written == record_intervention_writes(passport, odometer_km, work_type,
                       notes_hash, evidence_uri, workshop_signature,
                       recorded_at_ms, sender)
    IN  IF code # OK
        THEN [abort |-> code, passport |-> passport, emitted |-> <<>>]
        ELSE IF ~(recorded_at_ms > 0)
        THEN [abort |-> E_ZERO_VALUE, passport |-> written, emitted |-> <<>>]
        ELSE [abort |-> OK, passport |-> written,
              emitted |-> <<InterventionRecorded(sender, odometer_km)>>]

record_intervention(reg, passport, odometer_km, work_type, notes_hash, evidence_uri, workshop_signature, recorded_at_ms, sender) ==
    LET code == record_intervention_asserts(reg, passport, odometer_km,
                    recorded_at_ms, sender)
    IN  IF code # OK
        THEN [abort |-> code, passport |-> passport, emitted |-> <<>>]
        ELSE [abort |-> OK,
              passport |-> record_intervention_writes(passport, odometer_km,
                  work_type, notes_hash, evidence_uri, workshop_signature,
                  recorded_at_ms, sender),
              emitted |-> <<InterventionRecorded(sender, odometer_km)>>]

\* variant: the passport is rebuilt for the new owner and its counter starts over
transfer_passport_resets_counter(passport, to) ==
    [abort |-> OK,
     passport |-> [passport EXCEPT !.owner = to, !.intervention_counter = 0],
     receiver |-> to, emitted |-> <<>>]

\* variant: the object goes to the new holder and the owner field stays
transfer_passport_keeps_owner_field(passport, to) ==
    [abort |-> OK, passport |-> passport, receiver |-> to, emitted |-> <<>>]

\* variant: the passport is rebuilt for the new owner and its watermark
\* starts over
transfer_passport_resets_watermark(passport, to) ==
    [abort |-> OK,
     passport |-> [passport EXCEPT !.owner = to, !.latest_odometer_km = 0],
     receiver |-> to, emitted |-> <<>>]

transfer_passport(passport, to) ==
    [abort |-> OK, passport |-> [passport EXCEPT !.owner = to], receiver |-> to,
     emitted |-> <<>>]

----------------------------------------------------------------------------
(* The calls of loadOnChainPassports that may be under way together.       *)

Calls == {"A", "B"}

\* a snapshot: the ledger versions its passport list (entries) and its
\* passport objects (objects) were read at
Snapshot(entries, objects) == [entries |-> entries, objects |-> objects]

\* a call that has not started
Idle == [pc |-> "idle", seen |-> {}, entries |-> 0, value |-> Snapshot(0, 0),
         from |-> ""]

----------------------------------------------------------------------------
(* The ledger.                                                             *)

PassportIds == 1..Len(passports)

RECURSIVE CountInterventions(_)
CountInterventions(ps) ==
    IF ps = <<>> THEN 0
    ELSE intervention_count(Head(ps)) + CountInterventions(Tail(ps))

\* a call takes place only while its outcome fits the bound of the model
Fits(reg, ps) ==
    workshop_count(reg) + Len(ps) + CountInterventions(ps) <= MaxObjects

\* the record of a transaction: `passport` is the passport it took or
\* minted (0 for none), `address` its address argument ("" for none)
Call(fn, sender, abort, p, address, emitted) ==
    [fn |-> fn, sender |-> sender, abort |-> abort, passport |-> p,
     address |-> address, emitted |-> emitted]

\* the ledger after the package is published
LedgerInit ==
    \E sender \in Address :
        /\ registry = init(sender).registry
        /\ passports = <<>>
        /\ custody = <<>>
        /\ last = Call("init", sender, OK, 0, "", init(sender).emitted)

\* the signing service constructed from an empty environment, before any
\* request
SignerInit ==
    /\ iota = [packageId |-> "", registryId |-> "", adminPrivateKey |-> "",
               workshopKeypairs |-> <<>>]
    /\ submitted = {}
    /\ response = {}

\* the records service as constructed: no snapshot cached, no call of
\* loadOnChainPassports under way
CacheInit ==
    /\ cachedPassports = {}
    /\ now = 0
    /\ ledgerVersion = 0
    /\ loads = [c \in Calls |-> Idle]

Init ==
    /\ LedgerInit
    /\ SignerInit
    /\ CacheInit

RegisterWorkshop ==
    \E sender \in Address, workshop \in Address, did \in Did, pk \in PublicKey :
        LET out == register_workshop(registry, workshop, did, pk, sender)
        IN  /\ Fits(out.registry, passports)
            /\ registry' = out.registry
            /\ last' = Call("register_workshop", sender, out.abort, 0, workshop,
                            out.emitted)
            /\ UNCHANGED <<passports, custody, signerVars, cacheVars>>

SetWorkshopStatus ==
    \E sender \in Address, workshop \in Address, active \in BOOLEAN :
        LET out == set_workshop_status(registry, workshop, active, sender)
        IN  /\ registry' = out.registry
            /\ last' = Call("set_workshop_status", sender, out.abort, 0, workshop,
                            out.emitted)
            /\ UNCHANGED <<passports, custody, signerVars, cacheVars>>

MintVehiclePassport ==
    \E sender \in Address, owner \in Address, vin \in Vin, make \in Make,
       model \in Model, year \in Year :
        LET out == mint_vehicle_passport(registry, vin, make, model, year, owner, sender)
        IN  /\ Fits(out.registry, passports \o out.minted)
            /\ registry' = out.registry
            /\ passports' = passports \o out.minted
            /\ custody' = custody \o out.receiver
            /\ last' = Call("mint_vehicle_passport", sender, out.abort,
                            IF out.abort = OK THEN Len(passports) + 1 ELSE 0,
                            owner, out.emitted)
            /\ UNCHANGED <<signerVars, cacheVars>>

\* the arguments of a record_intervention transaction
RecordTx(sender, p, odometer_km, work_type, notes_hash, evidence_uri, workshop_signature, recorded_at_ms) ==
    [sender |-> sender, passport |-> p, odometer_km |-> odometer_km,
     work_type |-> work_type, notes_hash |-> notes_hash,
     evidence_uri |-> evidence_uri, workshop_signature |-> workshop_signature,
     recorded_at_ms |-> recorded_at_ms]

\* variant: the watermark is kept per vin, so the passports of one vin
\* share it
RecordInterventionTx_watermark_by_vin(reg, ps, cust, tx) ==
    IF cust[tx.passport] = tx.sender
    THEN LET out == record_intervention(reg, ps[tx.passport], tx.odometer_km,
                        tx.work_type, tx.notes_hash, tx.evidence_uri,
                        tx.workshop_signature, tx.recorded_at_ms, tx.sender)
         IN  [abort |-> out.abort,
              passports |->
                  [q \in 1..Len(ps) |->
                      IF q = tx.passport THEN out.passport
                      ELSE IF ps[q].vin = out.passport.vin
                      THEN [ps[q] EXCEPT !.latest_odometer_km =
                                             out.passport.latest_odometer_km]
                      ELSE ps[q]],
              emitted |-> out.emitted]
    ELSE [abort |-> E_OBJECT_NOT_HELD, passports |-> ps, emitted |-> <<>>]

\* the passport is an object that mint_vehicle_passport and
\* transfer_passport hand to an address (transfer::public_transfer); it is
\* taken here by mutable reference, and a transaction runs only when its
\* sender holds the objects it takes: the function has no check of its own
\* on the holder, and a transaction of anyone else is refused before the
\* function is entered.  The function reads and writes the one passport it
\* was given.
RecordInterventionTx(reg, ps, cust, tx) ==
    IF cust[tx.passport] = tx.sender
    THEN LET out == record_intervention(reg, ps[tx.passport], tx.odometer_km,
                        tx.work_type, tx.notes_hash, tx.evidence_uri,
                        tx.workshop_signature, tx.recorded_at_ms, tx.sender)
         IN  [abort |-> out.abort,
              passports |-> [ps EXCEPT ![tx.passport] = out.passport],
              emitted |-> out.emitted]
    ELSE [abort |-> E_OBJECT_NOT_HELD, passports |-> ps, emitted |-> <<>>]

\* variant: the registry counts the interventions in passport_counter
RecordIntervention_counts_in_registry ==
    \E sender \in Address, p \in PassportIds, odometer_km \in Km,
       work_type \in WorkType, notes_hash \in NotesHash, evidence_uri \in EvidenceUri,
       workshop_signature \in Signature, recorded_at_ms \in Ts :
        LET out == RecordInterventionTx(registry, passports, custody,
                       RecordTx(sender, p, odometer_km, work_type, notes_hash,
                                evidence_uri, workshop_signature, recorded_at_ms))
        IN  /\ Fits(registry, out.passports)
            /\ passports' = out.passports
            /\ registry' = IF out.abort = OK
                           THEN [registry EXCEPT !.passport_counter = @ + 1]
                           ELSE registry
            /\ last' = Call("record_intervention", sender, out.abort, p, "",
                            out.emitted)
            /\ UNCHANGED <<custody, signerVars, cacheVars>>

RecordIntervention ==
    \E sender \in Address, p \in PassportIds, odometer_km \in Km,
       work_type \in WorkType, notes_hash \in NotesHash, evidence_uri \in EvidenceUri,
       workshop_signature \in Signature, recorded_at_ms \in Ts :
        LET out == RecordInterventionTx(registry, passports, custody,
                       RecordTx(sender, p, odometer_km, work_type, notes_hash,
                                evidence_uri, workshop_signature, recorded_at_ms))
        IN  /\ Fits(registry, out.passports)
            /\ passports' = out.passports
            /\ last' = Call("record_intervention", sender, out.abort, p, "",
                            out.emitted)
            /\ UNCHANGED <<registry, custody, signerVars, cacheVars>>

\* the arguments of a transfer_passport transaction
TransferTx(sender, p, to) == [sender |-> sender, passport |-> p, to |-> to]

\* the passport is taken by value: the transaction runs only when its
\* sender holds the object, and is refused otherwise
TransferPassportTx(ps, cust, tx) ==
    IF cust[tx.passport] = tx.sender
    THEN LET out == transfer_passport(ps[tx.passport], tx.to)
         IN  [abort |-> out.abort,
              passports |-> [ps EXCEPT ![tx.passport] = out.passport],
              custody |-> [cust EXCEPT ![tx.passport] = out.receiver],
              emitted |-> out.emitted]
    ELSE [abort |-> E_OBJECT_NOT_HELD, passports |-> ps, custody |-> cust,
          emitted |-> <<>>]

\* variant: a transfer runs for whoever names the passport
TransferPassport_by_anyone ==
    \E sender \in Address, p \in PassportIds, to \in Address :
        LET out == transfer_passport(passports[p], to)
        IN  /\ passports' = [passports EXCEPT ![p] = out.passport]
            /\ custody' = [custody EXCEPT ![p] = out.receiver]
            /\ last' = Call("transfer_passport", sender, out.abort, p, to,
                            out.emitted)
            /\ UNCHANGED <<registry, signerVars, cacheVars>>

TransferPassport ==
    \E sender \in Address, p \in PassportIds, to \in Address :
        LET out == TransferPassportTx(passports, custody, TransferTx(sender, p, to))
        IN  /\ passports' = out.passports
            /\ custody' = out.custody
            /\ last' = Call("transfer_passport", sender, out.abort, p, to,
                            out.emitted)
            /\ UNCHANGED <<registry, signerVars, cacheVars>>

Next ==
    \/ RegisterWorkshop
    \/ SetWorkshopStatus
    \/ MintVehiclePassport
    \/ RecordIntervention
    \/ TransferPassport

Spec == Init /\ [][Next]_vars

----------------------------------------------------------------------------
(* Properties of the ledger.                                               *)

History(p) == passports[p].interventions

\* C1: in every reachable state, for every passport, the intervention at
\* 0-based position i of its history has seq = i+1 (here positions are
\* 1-based, so the k-th intervention has seq = k): the sequence numbers are
\* exactly 1..N, without gaps or repeats.
C1_SeqContiguous ==
    \A p \in PassportIds :
        \A k \in 1..Len(History(p)) : History(p)[k].seq = k

\* a passport with two interventions, after a failed call on it
C1_Witness ==
    /\ last.fn = "record_intervention"
    /\ last.abort # OK
    /\ last.passport \in PassportIds
    /\ Len(History(last.passport)) >= 2

\* C2: in every reachable state, for every passport and every pair of
\* adjacent interventions, the earlier odometer_km is at most the later one.
C2_OdometerNonDecreasing ==
    \A p \in PassportIds :
        \A k \in 1..(Len(History(p)) - 1) :
            History(p)[k].odometer_km <= History(p)[k + 1].odometer_km

\* a passport transferred after two interventions with rising mileage
C2_Witness ==
    \E p \in PassportIds :
        /\ Len(History(p)) >= 2
        /\ History(p)[1].odometer_km < History(p)[2].odometer_km
        /\ last.fn = "transfer_passport"
        /\ last.abort = OK
        /\ last.passport = p

\* C3: in every reachable state, latest_odometer_km of every passport is the
\* odometer_km of the last intervention of its history, or 0 when the
\* history is empty.
C3_WatermarkIsLastReading ==
    \A p \in PassportIds :
        passports[p].latest_odometer_km =
            IF History(p) = <<>> THEN 0
            ELSE History(p)[Len(History(p))].odometer_km

\* a passport whose intervention has just been recorded, with a positive
\* watermark, next to a passport without history
C3_Witness ==
    /\ last.fn = "record_intervention"
    /\ last.abort = OK
    /\ passports[last.passport].latest_odometer_km > 0
    /\ \E q \in PassportIds : History(q) = <<>>

\* the positions of the directory entries of address a
EntriesOf(a) ==
    {i \in 1..Len(registry.workshops) : registry.workshops[i].workshop = a}

\* a has no directory entry, or its earliest entry is not active
NotActive(a) ==
    \/ EntriesOf(a) = {}
    \/ \E i \in EntriesOf(a) :
           /\ \A j \in EntriesOf(a) : i <= j
           /\ ~registry.workshops[i].active

\* the abort codes of record_intervention called now by sender on passport p
\* with the given reading and timestamp
RecordAborts(sender, p, odometer_km, recorded_at_ms) ==
    {record_intervention(registry, passports[p], odometer_km, wt, nh, eu, sg,
                         recorded_at_ms, sender).abort :
        wt \in WorkType, nh \in NotesHash, eu \in EvidenceUri, sg \in Signature}

\* the transaction of the call was let through and entered the function
Entered(c) == c.abort # E_OBJECT_NOT_HELD

C6_NonAdminRejected ==
    /\ \A sender \in Address \ {registry.admin}, workshop \in Address,
          active \in BOOLEAN :
           LET out == set_workshop_status(registry, workshop, active, sender)
           IN  /\ out.abort = E_NOT_ADMIN
               /\ out.registry = registry
               /\ out.emitted = <<>>
    /\ (last.fn = "set_workshop_status" /\ last.sender # registry.admin)
           => last.abort = E_NOT_ADMIN

\* an active workshop that is not the admin has tried to set its own status
C6_Witness ==
    /\ last.fn = "set_workshop_status"
    /\ last.abort = E_NOT_ADMIN
    /\ last.address = last.sender
    /\ ~NotActive(last.sender)

\* C7: every step that changes the history of a passport is a successful
\* record_intervention on that passport that appends one intervention whose
\* workshop is the sender of the call, and that sender is an active workshop
\* in the state the call ran in; a passport starts with an empty history.
C7_Step ==
    /\ \A p \in PassportIds :
           passports'[p].interventions # passports[p].interventions
               => /\ last'.fn = "record_intervention"
                  /\ last'.abort = OK
                  /\ last'.passport = p
                  /\ \E x \in {passports'[p].interventions[Len(passports'[p].interventions)]} :
                         /\ passports'[p].interventions = Append(History(p), x)
                         /\ x.workshop = last'.sender
                  /\ ~NotActive(last'.sender)
    /\ \A p \in (1..Len(passports')) \ PassportIds :
           passports'[p].interventions = <<>>

C7_AttributedToActiveSender == [][C7_Step]_vars

\* an intervention recorded by one of two active workshops and attributed
\* to it
C7_Witness ==
    /\ last.fn = "record_intervention"
    /\ last.abort = OK
    /\ \E a \in Address \ {last.sender} : ~NotActive(a)
    /\ History(last.passport)[Len(History(last.passport))].workshop = last.sender

\* C8: a successful transfer_passport(passport, to) changes only the owner
\* and the custody of that passport, both to `to`: its history, counter,
\* watermark, vin, make, model and year, the registry and every other
\* passport are the same before and after.
C8_Step ==
    (last'.fn = "transfer_passport" /\ last'.abort = OK)
        => /\ registry' = registry
           /\ Len(passports') = Len(passports)
           /\ Len(custody') = Len(custody)
           /\ last'.passport \in PassportIds
           /\ passports'[last'.passport] =
                  [passports[last'.passport] EXCEPT !.owner = last'.address]
           /\ custody'[last'.passport] = last'.address
           /\ \A q \in PassportIds \ {last'.passport} :
                  passports'[q] = passports[q] /\ custody'[q] = custody[q]

C8_TransferChangesOwnerOnly == [][C8_Step]_vars

\* a passport with history handed to another identity, next to a second
\* passport
C8_Witness ==
    /\ last.fn = "transfer_passport"
    /\ last.abort = OK
    /\ last.address # last.sender
    /\ History(last.passport) # <<>>
    /\ Len(passports) >= 2

\* C9: when register_workshop, set_workshop_status, mint_vehicle_passport or
\* record_intervention aborts (or a transfer is refused), the ledger is what
\* it was before the call: registry, every passport and its custody are
\* unchanged and no event is emitted.
C9_Step ==
    last'.abort # OK
        => /\ UNCHANGED <<registry, passports, custody>>
           /\ last'.emitted = <<>>

C9_AbortChangesNothing == [][C9_Step]_vars

\* a rejected rollback: the watermark is still 15000 and the count still 1
C9_Witness ==
    /\ last.fn = "record_intervention"
    /\ last.abort = E_ODOMETER_ROLLBACK
    /\ passports[last.passport].latest_odometer_km = 15000
    /\ intervention_count(passports[last.passport]) = 1

\* C10: registry.admin is the sender of init and has the same value in every
\* later state, whoever calls whatever.
C10_AdminFixed ==
    /\ [](last.fn = "init" => registry.admin = last.sender)
    /\ [][registry'.admin = registry.admin]_vars

\* the admin has changed the status of a workshop
C10_Witness ==
    /\ last.fn = "set_workshop_status"
    /\ last.abort = OK
    /\ last.sender = registry.admin

\* C11: register_workshop aborts with E_UNAUTHORIZED_SENDER whenever the
\* workshop argument is not the sender, the admin included; when it is the
\* sender the call succeeds, appends exactly one entry {workshop, did, key,
\* active: true} at the end of the directory and raises workshop_count by
\* exactly 1, also when the address has an entry already.
C11_SelfRegistrationOnly ==
    /\ \A sender \in Address, workshop \in Address, did \in Did, pk \in PublicKey :
           LET out == register_workshop(registry, workshop, did, pk, sender)
           IN  IF workshop # sender
               THEN /\ out.abort = E_UNAUTHORIZED_SENDER
                    /\ out.registry = registry
               ELSE /\ out.abort = OK
                    /\ out.registry.workshops =
                           Append(registry.workshops,
                                  [workshop |-> workshop, did |-> did,
                                   public_key_multibase |-> pk, active |-> TRUE])
                    /\ workshop_count(out.registry) = workshop_count(registry) + 1
                    /\ out.registry.admin = registry.admin
                    /\ out.registry.passport_counter = registry.passport_counter
    /\ last.fn = "register_workshop"
           => IF last.address # last.sender
              THEN last.abort = E_UNAUTHORIZED_SENDER
              ELSE /\ last.abort = OK
                   /\ workshop_count(registry) >= 1
                   /\ registry.workshops[workshop_count(registry)].workshop = last.sender
                   /\ registry.workshops[workshop_count(registry)].active

\* an address has registered itself a second time, next to the admin
C11_Witness ==
    /\ last.fn = "register_workshop"
    /\ last.abort = OK
    /\ \E i \in EntriesOf(last.sender) : i < workshop_count(registry)
    /\ registry.workshops[workshop_count(registry)].workshop = last.sender
    /\ last.sender # registry.admin

\* C12: mint_vehicle_passport succeeds exactly when owner = sender and
\* year > 0; it aborts with E_UNAUTHORIZED_SENDER for owner # sender and with
\* E_ZERO_VALUE (the code of an invalid year) for year <= 0.  On success
\* exactly one new passport exists with the given vin, make, model and year,
\* owner = sender, latest_odometer_km = 0, intervention_counter = 0 and an
\* empty history, and passport_counter has grown by exactly 1; the vin is
\* not compared with the existing passports.
C12_MintOutcome ==
    /\ \A sender \in Address, owner \in Address, vin \in Vin, make \in Make,
          model \in Model, year \in Year :
           LET out == mint_vehicle_passport(registry, vin, make, model, year,
                                            owner, sender)
           IN  /\ (out.abort = OK) <=> (owner = sender /\ year > 0)
               /\ owner # sender => out.abort = E_UNAUTHORIZED_SENDER
               /\ (owner = sender /\ year <= 0) => out.abort = E_ZERO_VALUE
               /\ out.abort # OK => (out.minted = <<>> /\ out.registry = registry)
               /\ out.abort = OK
                      => /\ out.minted =
                                <<[vin |-> vin, make |-> make, model |-> model,
                                   year |-> year, owner |-> sender,
                                   latest_odometer_km |-> 0,
                                   intervention_counter |-> 0,
                                   interventions |-> <<>>]>>
                         /\ out.receiver = <<sender>>
                         /\ out.registry.passport_counter =
                                registry.passport_counter + 1
                         /\ out.registry.workshops = registry.workshops
                         /\ out.registry.admin = registry.admin
    /\ (last.fn = "mint_vehicle_passport" /\ last.abort = OK)
           => /\ last.passport = Len(passports)
              /\ passports[last.passport].owner = last.sender
              /\ custody[last.passport] = last.sender
              /\ passports[last.passport].year > 0
              /\ passports[last.passport].latest_odometer_km = 0
              /\ passports[last.passport].intervention_counter = 0
              /\ History(last.passport) = <<>>

\* a second passport has been minted for a vin that has a passport with
\* history already
C12_Witness ==
    /\ last.fn = "mint_vehicle_passport"
    /\ last.abort = OK
    /\ \E q \in PassportIds \ {last.passport} :
           /\ passports[q].vin = passports[last.passport].vin
           /\ History(q) # <<>>

\* C13: interventions are append-only and immutable: in every step and for
\* every passport, the history before the step is a prefix of the history
\* after it, and no passport disappears; no operation edits, reorders or
\* removes an intervention that was appended.
C13_Step ==
    /\ Len(passports') >= Len(passports)
    /\ \A p \in PassportIds :
           /\ Len(passports'[p].interventions) >= Len(History(p))
           /\ SubSeq(passports'[p].interventions, 1, Len(History(p))) = History(p)

C13_AppendOnly == [][C13_Step]_vars

\* a second intervention, with another reading, has been appended behind
\* the first one
C13_Witness ==
    /\ last.fn = "record_intervention"
    /\ last.abort = OK
    /\ Len(History(last.passport)) = 2
    /\ History(last.passport)[1].seq = 1
    /\ History(last.passport)[1].odometer_km # History(last.passport)[2].odometer_km

\* C14: every successful mutating operation (init, register_workshop,
\* set_workshop_status, mint_vehicle_passport, record_intervention,
\* transfer_passport) emits exactly one event, and a failing one emits none.
C14_OneEventPerSuccess ==
    /\ last.abort = OK => Len(last.emitted) = 1
    /\ last.abort # OK => last.emitted = <<>>

\* C15: set_workshop_status called by the admin for an address without
\* directory entry fails with an error that is not E_WORKSHOP_NOT_ACTIVE.
C15_NotFoundIsDistinct ==
    (/\ last.fn = "set_workshop_status"
     /\ last.sender = registry.admin
     /\ EntriesOf(last.address) = {})
        => /\ last.abort # OK
           /\ last.abort # E_WORKSHOP_NOT_ACTIVE

\* C16: is_workshop_active(a) never aborts: it is false when no directory
\* entry has address a, and otherwise it is the active flag of the entry of
\* a with the lowest index, whatever later entries of a say.
C16_FirstEntryDecides ==
    \A a \in Address :
        /\ is_workshop_active(registry, a) \in BOOLEAN
        /\ EntriesOf(a) = {} => is_workshop_active(registry, a) = FALSE
        /\ EntriesOf(a) # {}
               => is_workshop_active(registry, a) =
                      registry.workshops[CHOOSE i \in EntriesOf(a) :
                                             \A j \in EntriesOf(a) : i <= j].active

\* one address has an inactive first entry and an active later one, and
\* another address has no entry
C16_Witness ==
    /\ \E a \in Address :
           \E i \in EntriesOf(a), j \in EntriesOf(a) :
               /\ i < j
               /\ \A k \in EntriesOf(a) : i <= k
               /\ ~registry.workshops[i].active
               /\ registry.workshops[j].active
               /\ ~is_workshop_active(registry, a)
    /\ \E b \in Address : EntriesOf(b) = {}

\* w has a directory entry and the first one is not active
DeactivatedIn(reg, w) ==
    /\ \E i \in 1..Len(reg.workshops) : reg.workshops[i].workshop = w
    /\ ~is_workshop_active(reg, w)

\* the step is a successful set_workshop_status(w, active) by the admin
StatusSetBy(fn_call, admin, w, active) ==
    /\ fn_call.fn = "set_workshop_status"
    /\ fn_call.abort = OK
    /\ fn_call.sender = admin
    /\ fn_call.address = w
    /\ fn_call.emitted = <<WorkshopStatusChanged(w, active)>>

\* C17: a successful set_workshop_status(w, false) by the admin leaves w
\* deactivated; while w is deactivated, every record_intervention by w
\* aborts with E_WORKSHOP_NOT_ACTIVE (where w does not hold the passport
\* the transaction is refused before that), no step appends an intervention whose
\* workshop is w, and w stays deactivated in every step that is not a
\* successful set_workshop_status(w, true) by the admin.
C17_Step ==
    \A w \in Address :
        /\ StatusSetBy(last', registry.admin, w, FALSE) => DeactivatedIn(registry', w)
        /\ DeactivatedIn(registry, w)
               => /\ (last'.fn = "record_intervention" /\ last'.sender = w)
                         => /\ last'.abort \in {E_WORKSHOP_NOT_ACTIVE, E_OBJECT_NOT_HELD}
                            /\ passports' = passports
                  /\ \A p \in PassportIds, km \in Km, ts \in Ts :
                         RecordAborts(w, p, km, ts) = {E_WORKSHOP_NOT_ACTIVE}
                  /\ \A p \in PassportIds :
                         \A k \in (Len(History(p)) + 1)..Len(passports'[p].interventions) :
                             passports'[p].interventions[k].workshop # w
                  /\ \/ DeactivatedIn(registry', w)
                     \/ StatusSetBy(last', registry.admin, w, TRUE)

RecordOutcomes(sender, p, odometer_km, recorded_at_ms) ==
    {record_intervention(registry, passports[p], odometer_km, wt, nh, eu, sg,
                         recorded_at_ms, sender) :
        wt \in WorkType, nh \in NotesHash, eu \in EvidenceUri, sg \in Signature}

C19_ActiveIsTheOnlyRequirement ==
    (last.fn = "record_intervention" /\ ~NotActive(last.sender))
        => /\ last.abort \in {OK, E_ODOMETER_ROLLBACK, E_ZERO_VALUE}
           /\ last.abort = OK
                  => /\ History(last.passport)[Len(History(last.passport))].seq =
                            intervention_count(passports[last.passport])
                     /\ passports[last.passport].latest_odometer_km =
                            last.emitted[1].odometer_km

\* C20: the owner and the custody of a passport change only in a
\* transfer_passport whose sender holds the passport; a transfer by anyone
\* else, the admin and active workshops included, changes neither.
C20_Step ==
    /\ \A p \in PassportIds :
           (passports'[p].owner # passports[p].owner \/ custody'[p] # custody[p])
               => /\ last'.fn = "transfer_passport"
                  /\ last'.abort = OK
                  /\ last'.passport = p
                  /\ last'.sender = custody[p]
    /\ (last'.fn = "transfer_passport" /\ last'.sender # custody[last'.passport])
           => /\ last'.abort # OK
              /\ UNCHANGED <<passports, custody>>

C20_OnlyHolderTransfers == [][C20_Step]_vars

\* the admin, an active workshop, has tried to transfer a passport with
\* history that another address holds
C20_Witness ==
    /\ last.fn = "transfer_passport"
    /\ last.abort = E_OBJECT_NOT_HELD
    /\ last.sender = registry.admin
    /\ ~NotActive(last.sender)
    /\ custody[last.passport] # last.sender
    /\ passports[last.passport].owner = custody[last.passport]

\* the record_intervention transactions that can be submitted now
RecordTxs ==
    {RecordTx(sender, p, km, wt, nh, eu, sg, ts) :
        sender \in Address, p \in PassportIds, km \in Km, wt \in WorkType,
        nh \in NotesHash, eu \in EvidenceUri, sg \in Signature, ts \in Ts}

\* the record_intervention calls that can be made now on passport p: the
\* transactions whose sender holds p, which are the ones that enter the
\* function
RecordCallsOn(p) ==
    {RecordTx(custody[p], p, km, wt, nh, eu, sg, ts) :
        km \in Km, wt \in WorkType, nh \in NotesHash, eu \in EvidenceUri,
        sg \in Signature, ts \in Ts}

\* C21: record_intervention calls on different passports are independent:
\* run in either order from any reachable state, two such calls leave the
\* same passports behind and each call has the same outcome in both orders;
\* a call on one passport leaves every other passport as it was.
C21_AtState ==
    \A p \in PassportIds :
        \A a \in RecordCallsOn(p) :
            \A ra \in {RecordInterventionTx(registry, passports, custody, a)} :
                /\ \A q \in PassportIds \ {p} : ra.passports[q] = passports[q]
                /\ \A q \in (p + 1)..Len(passports) :
                       \A b \in RecordCallsOn(q) :
                           \A rb \in {RecordInterventionTx(registry, passports, custody, b)} :
                               \A rab \in {RecordInterventionTx(registry, ra.passports, custody, b)},
                                  rba \in {RecordInterventionTx(registry, rb.passports, custody, a)} :
                                   /\ rab.passports = rba.passports
                                   /\ ra.abort = rba.abort
                                   /\ rb.abort = rab.abort
                                   /\ ra.emitted = rba.emitted
                                   /\ rb.emitted = rab.emitted

C21_DifferentPassportsIndependent == []C21_AtState

\* an active workshop that holds two passports has recorded on one of them,
\* and the watermarks of the two differ
C21_Witness ==
    /\ last.fn = "record_intervention"
    /\ last.abort = OK
    /\ \E q \in PassportIds \ {last.passport} :
           /\ custody[q] = last.sender
           /\ passports[q].latest_odometer_km #
                  passports[last.passport].latest_odometer_km

\* seq is 1..N along h and the readings never fall
WellFormedHistory(h) ==
    /\ \A k \in 1..Len(h) : h[k].seq = k
    /\ \A k \in 1..(Len(h) - 1) : h[k].odometer_km <= h[k + 1].odometer_km

\* C22: when two record_intervention calls on the same passport are
\* committed one after the other, in either order, the second is checked
\* against the watermark the first has committed: if the first succeeded
\* and the second, by an active workshop, has a lower reading, the second
\* aborts with E_ODOMETER_ROLLBACK and changes nothing; if both succeed the
\* history has grown by their two interventions, in commit order, with
\* consecutive seq; in every case the seq of the history stay 1..N and its
\* readings never fall.
C22_AtState ==
    \A p \in PassportIds :
        \A a \in RecordCallsOn(p) :
            \A ra \in {RecordInterventionTx(registry, passports, custody, a)} :
                \A b \in RecordCallsOn(p) :
                    \A rab \in {RecordInterventionTx(registry, ra.passports, custody, b)} :
                        LET n == Len(History(p))
                            h == rab.passports[p].interventions
                        IN  /\ WellFormedHistory(h)
                            /\ (/\ ra.abort = OK
                                /\ is_workshop_active(registry, b.sender)
                                /\ b.odometer_km < a.odometer_km)
                                   => /\ rab.abort = E_ODOMETER_ROLLBACK
                                      /\ rab.passports = ra.passports
                            /\ (ra.abort = OK /\ rab.abort = OK)
                                   => /\ Len(h) = n + 2
                                      /\ SubSeq(h, 1, n) = History(p)
                                      /\ h[n + 1].seq = n + 1
                                      /\ h[n + 1].odometer_km = a.odometer_km
                                      /\ h[n + 2].seq = n + 2
                                      /\ h[n + 2].odometer_km = b.odometer_km
                                      /\ rab.passports[p].latest_odometer_km =
                                             b.odometer_km

C22_SamePassportSerialized == []C22_AtState

\* after readings 0 and 15000 were committed on a passport, a call with a
\* lower reading was rejected
C22_Witness ==
    /\ last.fn = "record_intervention"
    /\ last.abort = E_ODOMETER_ROLLBACK
    /\ Len(History(last.passport)) = 2
    /\ History(last.passport)[1].odometer_km = 0
    /\ History(last.passport)[2].odometer_km = 15000

\* C23: a transfer_passport by the holder and a valid record_intervention
\* (active workshop, reading not below the watermark, positive timestamp)
\* on the same passport, committed in either order, both succeed and leave
\* the same passport behind: owner = the target of the transfer and the
\* history grown by exactly the one new intervention.
C23_TransferAndRecordCommute ==
    \A r \in RecordTxs, to \in Address :
        (/\ is_workshop_active(registry, r.sender)
         /\ r.odometer_km >= passports[r.passport].latest_odometer_km
         /\ r.recorded_at_ms > 0)
            => LET p  == r.passport
                   t  == TransferTx(custody[p], p, to)
                   r1 == RecordInterventionTx(registry, passports, custody, r)
                   t2 == TransferPassportTx(r1.passports, custody, t)
                   t1 == TransferPassportTx(passports, custody, t)
                   r2 == RecordInterventionTx(registry, t1.passports, t1.custody, r)
               IN  /\ r1.abort = OK /\ t2.abort = OK
                   /\ t1.abort = OK /\ r2.abort = OK
                   /\ t2.passports = r2.passports
                   /\ r2.passports[p].owner = to
                   /\ Len(r2.passports[p].interventions) = Len(History(p)) + 1
                   /\ SubSeq(r2.passports[p].interventions, 1, Len(History(p))) =
                          History(p)

\* C24: directory entries are never deleted and only the admin changes
\* them: in every step workshop_count does not fall, the workshop, did and
\* public_key_multibase of an existing entry stay what they were, and the
\* active flag of an entry changes only in a successful
\* set_workshop_status sent by registry.admin.
C24_Step ==
    /\ workshop_count(registry') >= workshop_count(registry)
    /\ \A i \in 1..workshop_count(registry) :
           /\ registry'.workshops[i].workshop = registry.workshops[i].workshop
           /\ registry'.workshops[i].did = registry.workshops[i].did
           /\ registry'.workshops[i].public_key_multibase =
                  registry.workshops[i].public_key_multibase
           /\ registry'.workshops[i].active # registry.workshops[i].active
                  => /\ last'.fn = "set_workshop_status"
                     /\ last'.abort = OK
                     /\ last'.sender = registry.admin
                     /\ last'.address = registry.workshops[i].workshop

C24_DirectoryOnlyGrows == [][C24_Step]_vars

\* the admin has switched off a workshop, not itself, that has two entries
C24_Witness ==
    /\ last.fn = "set_workshop_status"
    /\ last.abort = OK
    /\ last.address # last.sender
    /\ Cardinality(EntriesOf(last.address)) = 2
    /\ NotActive(last.address)

\* C25: passports are never destroyed and passport_counter counts them: in
\* every state passport_counter is the number of passports; it starts at 0,
\* grows by exactly 1 in every successful mint_vehicle_passport and stays
\* in every other step, so it is the number of successful mints and never
\* falls; every passport is there in every later state.
C25_Step ==
    /\ Len(passports') >= Len(passports)
    /\ IF last'.fn = "mint_vehicle_passport" /\ last'.abort = OK
       THEN /\ registry'.passport_counter = registry.passport_counter + 1
            /\ Len(passports') = Len(passports) + 1
       ELSE /\ registry'.passport_counter = registry.passport_counter
            /\ Len(passports') = Len(passports)

C25_CounterCountsPassports ==
    /\ [](registry.passport_counter = Len(passports))
    /\ [](last.fn = "init" => registry.passport_counter = 0)
    /\ [][C25_Step]_vars

\* with two passports minted, a mint was rejected and later steps left
\* both in place
C25_Witness ==
    /\ registry.passport_counter = 2
    /\ Len(passports) = 2
    /\ last.fn = "mint_vehicle_passport"
    /\ last.abort # OK

\* C26: after minting, the vin, make, model and year of a passport never
\* change, its owner changes only in a transfer_passport, and its
\* latest_odometer_km and intervention_counter never fall in any step.
C26_Step ==
    \A p \in PassportIds :
        /\ passports'[p].vin = passports[p].vin
        /\ passports'[p].make = passports[p].make
        /\ passports'[p].model = passports[p].model
        /\ passports'[p].year = passports[p].year
        /\ passports'[p].owner # passports[p].owner
               => (last'.fn = "transfer_passport" /\ last'.passport = p)
        /\ passports'[p].latest_odometer_km >= passports[p].latest_odometer_km
        /\ passports'[p].intervention_counter >= passports[p].intervention_counter

C26_PassportFieldsStable == [][C26_Step]_vars

\* a passport with a reading of 15000 has gone to another owner and back
C26_Witness ==
    /\ last.fn = "transfer_passport"
    /\ last.abort = OK
    /\ passports[last.passport].latest_odometer_km = 15000
    /\ passports[last.passport].intervention_counter = 1
    /\ last.address = History(last.passport)[1].workshop
    /\ last.sender # last.address

\* what C27 says the events determine: the active flags of the directory,
\* the owner of every passport and the readings of every passport, in order
Reconstructed(reg, ps) ==
    [flags    |-> [i \in 1..Len(reg.workshops) |-> reg.workshops[i].active],
     owners   |-> [p \in 1..Len(ps) |-> ps[p].owner],
     readings |-> [p \in 1..Len(ps) |->
                      [k \in 1..Len(ps[p].interventions) |->
                          ps[p].interventions[k].odometer_km]]]

\* C27: two executions that emit the same sequence of events end with the
\* same directory flags, the same owner of every passport and the same
\* readings per passport.  An execution and the same execution with one
\* more step that emits nothing emit the same sequence, so the claim says
\* of every step: if it emits no event, it changes none of these.
C27_Step ==
    last'.emitted = <<>>
        => Reconstructed(registry', passports') = Reconstructed(registry, passports)

C27_EventsDetermineState == [][C27_Step]_vars

\* C28: a workshop cannot undo its deactivation by registering again: when
\* the first entry of w is not active, register_workshop by w succeeds and
\* afterwards is_workshop_active(w) is still false and every
\* record_intervention by w still aborts with E_WORKSHOP_NOT_ACTIVE;
\* conversely set_workshop_status(w, false) by the admin makes
\* is_workshop_active(w) false also when later entries of w are active,
\* and leaves those entries as they are.
C28_ReRegistrationDoesNotReactivate ==
    /\ \A w \in Address, did \in Did, pk \in PublicKey :
           DeactivatedIn(registry, w)
               => LET out == register_workshop(registry, w, did, pk, w)
                  IN  /\ out.abort = OK
                      /\ workshop_count(out.registry) = workshop_count(registry) + 1
                      /\ ~is_workshop_active(out.registry, w)
                      /\ \A p \in PassportIds, km \in Km, ts \in Ts, wt \in WorkType,
                            nh \in NotesHash, eu \in EvidenceUri, sg \in Signature :
                             record_intervention(out.registry, passports[p], km, wt,
                                 nh, eu, sg, ts, w).abort = E_WORKSHOP_NOT_ACTIVE
    /\ \A w \in Address :
           EntriesOf(w) # {}
               => LET out == set_workshop_status(registry, w, FALSE, registry.admin)
                  IN  /\ out.abort = OK
                      /\ ~is_workshop_active(out.registry, w)
                      /\ \A i \in EntriesOf(w) :
                             (\E j \in EntriesOf(w) : j < i)
                                 => out.registry.workshops[i] = registry.workshops[i]
    /\ (/\ last.fn = "register_workshop"
        /\ last.abort = OK
        /\ \E i \in EntriesOf(last.sender) :
               i < workshop_count(registry) /\ \A j \in EntriesOf(last.sender) : i <= j
                   /\ ~registry.workshops[i].active)
           => ~is_workshop_active(registry, last.sender)

\* a deactivated workshop that holds a passport has registered again: its
\* new entry is active and it still counts as not active
C28_Witness ==
    /\ last.fn = "register_workshop"
    /\ last.abort = OK
    /\ registry.workshops[workshop_count(registry)].active
    /\ DeactivatedIn(registry, last.sender)
    /\ \E p \in PassportIds : custody[p] = last.sender

C30_StatusIsSetNotToggled ==
    /\ \A w \in Address, active \in BOOLEAN :
           EntriesOf(w) # {}
               => LET once  == set_workshop_status(registry, w, active, registry.admin)
                      twice == set_workshop_status(once.registry, w, active,
                                                   registry.admin)
                  IN  /\ once.abort = OK
                      /\ is_workshop_active(once.registry, w) = active
                      /\ twice.abort = OK
                      /\ twice.registry = once.registry
    /\ (last.fn = "set_workshop_status" /\ last.abort = OK)
           => is_workshop_active(registry, last.address) = last.emitted[1].active

\* the admin has set a workshop that has recorded an intervention to active
C30_Witness ==
    /\ last.fn = "set_workshop_status"
    /\ last.abort = OK
    /\ last.emitted[1].active
    /\ is_workshop_active(registry, last.address)
    /\ \E p \in PassportIds :
           History(p) # <<>> /\ History(p)[1].workshop = last.address

C32_Step ==
    (last'.fn = "set_workshop_status" /\ last'.abort = OK)
        => /\ EntriesOf(last'.address) # {}
           /\ \E i \in EntriesOf(last'.address) :
                  /\ \A j \in EntriesOf(last'.address) : i <= j
                  /\ registry' = [registry EXCEPT !.workshops[i].active =
                                                       last'.emitted[1].active]
           /\ UNCHANGED <<passports, custody>>

C32_StatusWritesFirstEntryOnly == [][C32_Step]_vars

\* the admin has switched off the first entry of a workshop whose second
\* entry is still active, next to a passport
C32_Witness ==
    /\ last.fn = "set_workshop_status"
    /\ last.abort = OK
    /\ ~last.emitted[1].active
    /\ \E i \in EntriesOf(last.address), j \in EntriesOf(last.address) :
           i < j /\ ~registry.workshops[i].active /\ registry.workshops[j].active
    /\ passports # <<>>

\* C33: a successful record_intervention on passport P changes only P's
\* intervention_counter, latest_odometer_km and interventions: P's owner,
\* vin, make, model and year, the registry and every other passport (and
\* who holds which passport) stay what they were.
C33_Step ==
    (last'.fn = "record_intervention" /\ last'.abort = OK)
        => /\ registry' = registry
           /\ custody' = custody
           /\ Len(passports') = Len(passports)
           /\ last'.passport \in PassportIds
           /\ \A q \in PassportIds \ {last'.passport} : passports'[q] = passports[q]
           /\ \E c \in {passports'[last'.passport].intervention_counter},
                 k \in {passports'[last'.passport].latest_odometer_km},
                 h \in {passports'[last'.passport].interventions} :
                  passports'[last'.passport] =
                      [passports[last'.passport] EXCEPT
                          !.intervention_counter = c,
                          !.latest_odometer_km = k,
                          !.interventions = h]

C33_RecordChangesOnePassport == [][C33_Step]_vars

\* an intervention was recorded on one of two passports; the other has no
\* history
C33_Witness ==
    /\ last.fn = "record_intervention"
    /\ last.abort = OK
    /\ registry.passport_counter = 2
    /\ \E q \in PassportIds \ {last.passport} : History(q) = <<>>
    /\ passports[last.passport].owner = last.sender

\* C34: in every state and for every passport, intervention_counter is the
\* length of the history (what intervention_count returns) and the seq of
\* its last intervention, or 0 when the history is empty.
C34_CounterIsLength ==
    \A p \in PassportIds :
        /\ passports[p].intervention_counter = intervention_count(passports[p])
        /\ IF History(p) = <<>>
           THEN passports[p].intervention_counter = 0
           ELSE passports[p].intervention_counter = History(p)[Len(History(p))].seq

\* a workshop was switched off after a passport reached two interventions
C34_Witness ==
    /\ last.fn = "set_workshop_status"
    /\ last.abort = OK
    /\ \E p \in PassportIds :
           /\ passports[p].intervention_counter = 2
           /\ History(p)[2].seq = 2

\* C35: in every state the ledger's operations reach, the owner field of
\* every passport is the address that holds the passport object:
\* mint_vehicle_passport gives the object to the declared owner and
\* transfer_passport writes the field and hands the object over together.
C35_OwnerIsHolder ==
    /\ Len(custody) = Len(passports)
    /\ \A p \in PassportIds : passports[p].owner = custody[p]

\* a passport without history has gone to an address that did not mint it
C35_Witness ==
    /\ last.fn = "transfer_passport"
    /\ last.abort = OK
    /\ last.address # last.sender
    /\ History(last.passport) = <<>>
    /\ custody[last.passport] = last.address
    /\ passports[last.passport].owner = last.address

----------------------------------------------------------------------------
(* The signing service of the backend (IotaCliService).                    *)

\* workshop signer entries IOTA_WORKSHOP_PRIVATE_KEYS_JSON holds at most
MaxEnvEntries == 2

InternalServerErrorException == "InternalServerErrorException"
BadRequestException == "BadRequestException"

\* the workshopAddress of a request, as the client wrote it
RequestAddress == {"0xAA", "0xaa", "0xbb", "0xcc"}

\* the keys of the object in IOTA_WORKSHOP_PRIVATE_KEYS_JSON
EnvAddress == {"0xAA", "0xaa", "0xbb"}

PrivateKey == {"key_aa", "key_bb", "key_ad"}

\* String.prototype.toLowerCase on the strings above
toLowerCase(s) ==
    CASE s = "0xAA" -> "0xaa"
      [] s = "0xA1" -> "0xa1"
      [] s = "0xBB" -> "0xbb"
      [] OTHER -> s

\* a key pair is known by its secret; its address is derived from the
\* secret alone and has nothing to do with the name it is filed under
parseKeypair(secret) ==
    [secret |-> secret,
     address |-> CASE secret = "key_aa" -> "0xaa"
                   [] secret = "key_bb" -> "0xbb"
                   [] OTHER -> "0xad"]

toIotaAddress(keypair) == keypair.address

\* the entries of the parsed JSON object, in order; the keys of an object
\* differ from each other (by case at least)
EnvEntries ==
    {parsed \in UNION {[1..n -> EnvAddress \X PrivateKey] : n \in 0..MaxEnvEntries} :
        \A i, j \in DOMAIN parsed : parsed[i][1] = parsed[j][1] => i = j}

\* workshopKeypairs.set(address.toLowerCase(), parseKeypair(privateKey)) for
\* every entry in order: a later entry replaces an earlier one filed under
\* the same lower-case address
loadWorkshopSignersFromEnv(parsed) ==
    LET filed(a) == {i \in DOMAIN parsed : toLowerCase(parsed[i][1]) = a}
        latest(a) == CHOOSE i \in filed(a) : \A j \in filed(a) : j <= i
    IN  [a \in {toLowerCase(parsed[i][1]) : i \in DOMAIN parsed} |->
            parseKeypair(parsed[latest(a)][2])]

\* the constructor, from the environment
IotaCliService(config) ==
    [packageId |-> config.IOTA_PACKAGE_ID,
     registryId |-> config.IOTA_REGISTRY_ID,
     adminPrivateKey |-> IF config.IOTA_ADMIN_PRIVATE_KEY # ""
                         THEN config.IOTA_ADMIN_PRIVATE_KEY
                         ELSE config.IOTA_PRIVATE_KEY,
     workshopKeypairs |->
         loadWorkshopSignersFromEnv(config.IOTA_WORKSHOP_PRIVATE_KEYS_JSON)]

\* a call that threw before anything was sent
Thrown(exception) == [error |-> exception, sent |-> {}]

getAdminSigner(svc) ==
    IF svc.adminPrivateKey = ""
    THEN [error |-> InternalServerErrorException, signer |-> {}]
    ELSE [error |-> "", signer |-> {parseKeypair(svc.adminPrivateKey)}]

resolveSignerForWorkshop(svc, workshopAddress) ==
    LET normalized == toLowerCase(workshopAddress)
    IN  IF normalized \in DOMAIN svc.workshopKeypairs
        THEN [error |-> "", signer |-> {svc.workshopKeypairs[normalized]}]
        ELSE getAdminSigner(svc)

\* `executed` is the answer of the node: the call throws when the
\* transaction fails, after it was sent
executeMoveCall(svc, functionName, signer, executed) ==
    IF svc.packageId = ""
    THEN Thrown(InternalServerErrorException)
    ELSE [error |-> IF executed THEN "" ELSE InternalServerErrorException,
          sent |-> {[functionName |-> functionName,
                     signer |-> toIotaAddress(signer)]}]

\* variant: a key filed under the workshop's address is taken at its word,
\* only the admin fallback is compared with the request
addIntervention_trusts_configured_key(svc, input, executed) ==
    IF svc.registryId = ""
    THEN Thrown(InternalServerErrorException)
    ELSE LET resolved == resolveSignerForWorkshop(svc, input.workshopAddress)
             normalizedWorkshopAddress == toLowerCase(input.workshopAddress)
         IN  IF resolved.error # ""
             THEN Thrown(resolved.error)
             ELSE LET signer == CHOOSE k \in resolved.signer : TRUE
                      signerAddress == toLowerCase(toIotaAddress(signer))
                  IN  IF /\ normalizedWorkshopAddress \notin DOMAIN svc.workshopKeypairs
                         /\ normalizedWorkshopAddress # signerAddress
                      THEN Thrown(BadRequestException)
                      ELSE executeMoveCall(svc, "record_intervention", signer,
                                           executed)

\* of the request only workshopAddress decides what the call does before the
\* transaction is built; the other fields go into the transaction as they
\* are
addIntervention(svc, input, executed) ==
    IF svc.registryId = ""
    THEN Thrown(InternalServerErrorException)
    ELSE LET resolved == resolveSignerForWorkshop(svc, input.workshopAddress)
         IN  IF resolved.error # ""
             THEN Thrown(resolved.error)
             ELSE LET signer == CHOOSE k \in resolved.signer : TRUE
                      signerAddress == toLowerCase(toIotaAddress(signer))
                      normalizedWorkshopAddress == toLowerCase(input.workshopAddress)
                  IN  IF normalizedWorkshopAddress # signerAddress
                      THEN Thrown(BadRequestException)
                      ELSE executeMoveCall(svc, "record_intervention", signer,
                                           executed)

InitSigner ==
    /\ LedgerInit
    /\ CacheInit
    /\ \E packageId \in {"", "0xpkg"}, registryId \in {"", "0xreg"},
          adminKey \in {""} \cup PrivateKey, privateKey \in {"", "key_ad"},
          parsed \in EnvEntries :
           iota = IotaCliService([IOTA_PACKAGE_ID |-> packageId,
                                  IOTA_REGISTRY_ID |-> registryId,
                                  IOTA_ADMIN_PRIVATE_KEY |-> adminKey,
                                  IOTA_PRIVATE_KEY |-> privateKey,
                                  IOTA_WORKSHOP_PRIVATE_KEYS_JSON |-> parsed])
    /\ submitted = {}
    /\ response = {}

AddIntervention ==
    \E workshopAddress \in RequestAddress, executed \in BOOLEAN :
        LET input == [workshopAddress |-> workshopAddress]
            out == addIntervention(iota, input, executed)
        IN  /\ response' = {[input |-> input, error |-> out.error,
                             sent |-> out.sent]}
            /\ submitted' = submitted \cup
                   {[input |-> input, transaction |-> t] : t \in out.sent}
            /\ UNCHANGED <<iota, ledgerVars, cacheVars>>

NextSigner == AddIntervention

SpecSigner == InitSigner /\ [][NextSigner]_vars

\* C36: the backend never submits a record_intervention transaction signed
\* by a key whose address differs from the lower-cased workshopAddress of
\* the request.  The signer of a request is the key filed under that
\* address or, when none is, the admin key; once a signer is resolved the
\* request is answered with a bad-request error and nothing is sent unless
\* the signer's own address is the lower-cased workshopAddress, and the
\* transaction, when one is sent, carries that signer.
C36_SignerIsTheWorkshop ==
    /\ \A s \in submitted :
           s.transaction.functionName = "record_intervention"
               => s.transaction.signer = toLowerCase(s.input.workshopAddress)
    /\ \A r \in response :
           LET normalized == toLowerCase(r.input.workshopAddress)
               resolved ==
                   IF normalized \in DOMAIN iota.workshopKeypairs
                   THEN {iota.workshopKeypairs[normalized]}
                   ELSE IF iota.adminPrivateKey # ""
                   THEN {parseKeypair(iota.adminPrivateKey)}
                   ELSE {}
           IN  iota.registryId # "" =>
                   /\ \A k \in resolved :
                          IF toIotaAddress(k) # normalized
                          THEN r.error = BadRequestException /\ r.sent = {}
                          ELSE /\ r.error # BadRequestException
                               /\ iota.packageId # "" =>
                                      r.sent = {[functionName |-> "record_intervention",
                                                 signer |-> toIotaAddress(k)]}
                   /\ resolved = {} => r.error # BadRequestException /\ r.sent = {}

\* no key is filed under 0xaa and the admin's address is 0xaa: a request
\* for 0xAA went out signed by the admin, and the latest request was
\* refused as a bad request
C36_Witness ==
    /\ "0xaa" \notin DOMAIN iota.workshopKeypairs
    /\ \E s \in submitted :
           /\ s.input.workshopAddress = "0xAA"
           /\ s.transaction.signer = "0xaa"
    /\ \E r \in response : r.error = BadRequestException /\ r.sent = {}

----------------------------------------------------------------------------
(* The records service of the backend (RecordsService): reading the        *)
(* passports back from the ledger and judging their histories.             *)

\* interventions of a history handed to verifyInterventions directly
MaxHistory == 3

\* the vin of a request, as the client wrote it
RequestVin == {"vin123", " VIN123 ", "VIN999"}

\* vin.trim().toUpperCase() on the strings above
trimToUpperCase(s) ==
    CASE s = "vin123" -> "VIN123"
      [] s = " VIN123 " -> "VIN123"
      [] OTHER -> s

\* the two JSON forms a u64 field of an object arrives in
WireForm == {"number", "string"}

\* the decimal digits of n
RECURSIVE Digits(_)
Digits(n) == IF n < 10 THEN <<n>> ELSE Append(Digits(n \div 10), n % 10)

\* a u64 field as getObject returns it with showContent
JsonU64(n, form) ==
    IF form = "number"
    THEN [type |-> "number", number |-> n, string |-> <<>>]
    ELSE [type |-> "string", number |-> 0, string |-> Digits(n)]

\* Number(value) on a string of decimal digits
RECURSIVE Number(_)
Number(digits) ==
    IF digits = <<>> THEN 0
    ELSE 10 * Number(SubSeq(digits, 1, Len(digits) - 1)) + digits[Len(digits)]

toNumberValue(value) ==
    IF value.type = "number" THEN value.number
    ELSE IF value.type = "string" /\ value.string # <<>> THEN Number(value.string)
    ELSE 0

\* an entry of fields.interventions as loadOnChainPassports maps it
InterventionRecord(item, form) ==
    [seq |-> toNumberValue(JsonU64(item.seq, form)),
     odometerKm |-> toNumberValue(JsonU64(item.odometer_km, form)),
     workType |-> item.work_type,
     notesHash |-> item.notes_hash,
     evidenceUri |-> item.evidence_uri,
     workshopAddress |-> toLowerCase(item.workshop),
     workshopSignature |-> item.workshop_signature,
     recordedAtMs |-> toNumberValue(JsonU64(item.recorded_at_ms, form))]

\* a passport object as loadOnChainPassports maps it
VehicleRecord(passport, form) ==
    [vin |-> trimToUpperCase(passport.vin),
     make |-> passport.make,
     model |-> passport.model,
     year |-> toNumberValue(JsonU64(passport.year, form)),
     ownerAddress |-> toLowerCase(passport.owner),
     interventions |->
         [i \in DOMAIN passport.interventions |->
             InterventionRecord(passport.interventions[i], form)]]

\* what loadOnChainPassports reads from the passports ps: the entries are
\* sorted by mintedAt, latest first
VehicleRecords(ps, form) ==
    [i \in 1..Len(ps) |-> VehicleRecord(ps[Len(ps) + 1 - i], form)]

\* the loop of verifyInterventions from `previous` on
RECURSIVE verifyFrom(_, _)
verifyFrom(previous, interventions) ==
    IF interventions = <<>> THEN TRUE
    ELSE IF Head(interventions).odometerKm < previous THEN FALSE
    ELSE verifyFrom(Head(interventions).odometerKm, Tail(interventions))

\* variant: a reading has to exceed the one before it
verifyInterventions_rejects_equal(interventions) ==
    \A i \in DOMAIN interventions :
        interventions[i].odometerKm >
            (IF i = 1 THEN 0 ELSE interventions[i - 1].odometerKm)

verifyInterventions(interventions) == verifyFrom(0, interventions)

\* the answer for a vin: the first vehicle of that vin with its verdict, or
\* NotFoundException
getVehicleByVin(vehicles, vin) ==
    LET normalizedVin == trimToUpperCase(vin)
        hits == {i \in DOMAIN vehicles : trimToUpperCase(vehicles[i].vin) = normalizedVin}
    IN  IF hits = {}
        THEN [error |-> "NotFoundException", vehicle |-> {}]
        ELSE LET vehicle == vehicles[CHOOSE i \in hits : \A j \in hits : i <= j]
             IN  [error |-> "",
                  vehicle |-> {[vin |-> vehicle.vin,
                                ownerAddress |-> vehicle.ownerAddress,
                                interventions |-> vehicle.interventions,
                                verified |-> verifyInterventions(vehicle.interventions)]}]

\* odometer values a history handed to verifyInterventions may hold
Reading == Km \cup {0 - 1, 20000}

\* the histories of up to MaxHistory readings
Readings == UNION {[1..n -> Reading] : n \in 0..MaxHistory}

\* read in order, the values never decrease, starting from 0
NeverDecreases(readings) ==
    \A i \in DOMAIN readings :
        readings[i] >= (IF i = 1 THEN 0 ELSE readings[i - 1])

\* on every history of Readings the verdict of verifyInterventions is
\* NeverDecreases
VerdictIsNeverDecreases ==
    \A readings \in Readings :
        verifyInterventions([i \in DOMAIN readings |->
                                [odometerKm |-> readings[i]]])
            <=> NeverDecreases(readings)

\* the verdict is NeverDecreases, and every passport the ledger holds now
\* is answered as verified
C37_AtState ==
    /\ VerdictIsNeverDecreases
    /\ \A form \in WireForm :
           \A vehicles \in {VehicleRecords(passports, form)} :
               /\ \A vin \in RequestVin :
                      \A answer \in getVehicleByVin(vehicles, vin).vehicle :
                          answer.verified
               /\ \A i \in DOMAIN vehicles :
                      verifyInterventions(vehicles[i].interventions)

\* C37: verifyInterventions returns true exactly when the odometer values
\* of the history, read in order, never decrease starting from 0; and for
\* every passport the ledger holds, in either JSON form of its numbers,
\* getVehicleByVin answers verified == true.
C37_VerdictAgreesWithLedger == []C37_AtState

\* a passport has two interventions with the same reading and one request
\* for its vin is answered as verified
C37_Witness ==
    /\ \E p \in PassportIds :
           /\ Len(History(p)) = 2
           /\ History(p)[1].odometer_km = 15000
           /\ History(p)[2].odometer_km = 15000
    /\ \E answer \in getVehicleByVin(VehicleRecords(passports, "string"), "vin123").vehicle :
           /\ answer.verified
           /\ Len(answer.interventions) = 2
           /\ answer.interventions[2].odometerKm = 15000

----------------------------------------------------------------------------
(* The passport cache of the records service: loadOnChainPassports, with   *)
(* calls of it under way together.  A call runs from one await to the next *)
(* without interruption; the node answers each read from the ledger as it  *)
(* is when the read reaches it, and the answer reaches the call later.     *)

CACHE_TTL_MS == 15000

\* steps of the clock in one CACHE_TTL_MS
TicksPerTtl == 3

\* the clock stops after this many CACHE_TTL_MS
MaxTtls == 2

\* transactions committed while the backend runs
MaxVersion == 2

\* this.cachedPassports && this.cachedPassports.expiresAt > Date.now()
CacheValid(cache, t) == \E entry \in cache : entry.expiresAt > t

\* the check finds a snapshot that has not expired and the call returns it
ServeFromCache(c) ==
    /\ loads[c].pc = "idle"
    /\ CacheValid(cachedPassports, now)
    /\ \E entry \in cachedPassports :
           loads' = [loads EXCEPT ![c] = [Idle EXCEPT !.pc = "returned",
                                                      !.value = entry.value,
                                                      !.from = "cache"]]
    /\ UNCHANGED <<cachedPassports, now, ledgerVersion, ledgerVars, signerVars>>

\* the check finds no snapshot or an expired one (kept in seen) and the
\* call asks for the passport entries
FindExpired(c) ==
    /\ loads[c].pc = "idle"
    /\ ~CacheValid(cachedPassports, now)
    /\ loads' = [loads EXCEPT ![c] = [Idle EXCEPT !.pc = "getPassportEntries",
                                                  !.seen = cachedPassports]]
    /\ UNCHANGED <<cachedPassports, now, ledgerVersion, ledgerVars, signerVars>>

\* the node answers the event queries of getPassportEntries
GetPassportEntries(c) ==
    /\ loads[c].pc = "getPassportEntries"
    /\ loads' = [loads EXCEPT ![c].pc = "getObject",
                              ![c].entries = ledgerVersion]
    /\ UNCHANGED <<cachedPassports, now, ledgerVersion, ledgerVars, signerVars>>

\* the node answers the getObject reads of the entries
GetObject(c) ==
    /\ loads[c].pc = "getObject"
    /\ loads' = [loads EXCEPT ![c].pc = "store",
                              ![c].value = Snapshot(loads[c].entries, ledgerVersion)]
    /\ UNCHANGED <<cachedPassports, now, ledgerVersion, ledgerVars, signerVars>>

\* the answers have arrived: the call stores what it read and returns it
StoreCache(c) ==
    /\ loads[c].pc = "store"
    /\ cachedPassports' = {[expiresAt |-> now + CACHE_TTL_MS,
                            value |-> loads[c].value]}
    /\ loads' = [loads EXCEPT ![c].pc = "returned", ![c].from = "ledger"]
    /\ UNCHANGED <<now, ledgerVersion, ledgerVars, signerVars>>

\* the request is answered; the next one may start
Return(c) ==
    /\ loads[c].pc = "returned"
    /\ loads' = [loads EXCEPT ![c] = Idle]
    /\ UNCHANGED <<cachedPassports, now, ledgerVersion, ledgerVars, signerVars>>

\* a transaction is committed on the ledger
Commit ==
    /\ ledgerVersion < MaxVersion
    /\ ledgerVersion' = ledgerVersion + 1
    /\ UNCHANGED <<cachedPassports, now, loads, ledgerVars, signerVars>>

\* time passes
Tick ==
    /\ now < MaxTtls * CACHE_TTL_MS
    /\ now' = now + (CACHE_TTL_MS \div TicksPerTtl)
    /\ UNCHANGED <<cachedPassports, ledgerVersion, loads, ledgerVars, signerVars>>

InitCache ==
    /\ LedgerInit
    /\ SignerInit
    /\ CacheInit

NextCache ==
    \/ Commit
    \/ Tick
    \/ \E c \in Calls : ServeFromCache(c)
    \/ \E c \in Calls : FindExpired(c)
    \/ \E c \in Calls : GetPassportEntries(c)
    \/ \E c \in Calls : GetObject(c)
    \/ \E c \in Calls : StoreCache(c)
    \/ \E c \in Calls : Return(c)

SpecCache == InitCache /\ [][NextCache]_vars

\* snapshot a was read from an older ledger than snapshot b: its passport
\* objects were read earlier and its passport list no later
Older(a, b) == a.entries <= b.entries /\ a.objects < b.objects

\* call c stores, and the cache is no longer what c saw when it found it
\* expired: the other call, which found it expired as well, has stored its
\* snapshot while c was fetching.  The snapshot c leaves is not older than
\* that one.
C38_Step ==
    \A c \in Calls :
        (/\ loads[c].pc = "store"
         /\ loads'[c].pc = "returned"
         /\ cachedPassports # loads[c].seen)
        => \A old \in cachedPassports, new \in cachedPassports' :
               ~Older(new.value, old.value)

\* C38: the cache never goes backwards under overlapping requests: when
\* two calls of loadOnChainPassports both find the cache expired and fetch
\* together, the snapshot left in the cache is never older, by the ledger
\* state it was read from, than the snapshot the other call has already
\* stored.
C38_CacheNeverGoesBackwards == [][C38_Step]_vars

====
